---------------------------- MODULE Spec2Model ----------------------------
(***************************************************************************)
(* A model of ravetools' lyricspider: the Genius search resolver           *)
(* (genius.py), the sqlite store with its full-text shadow index           *)
(* (DB.MIGRATIONS), `sync` and the multi-process `pull` pipeline           *)
(* (lyricspider.py), and of the crate reconciliation of ravelibrarian.py.  *)
(*                                                                         *)
(* Python values are records tagged by `kind`, so that None, booleans,     *)
(* strings and objects can share a queue and be tested for truthiness the  *)
(* way `while x := q.get()` and `if not x` do.  Strings that the code      *)
(* inspects character by character (titles) are sequences of one-character *)
(* strings; the code points the code names are written "U2019", "U200B".   *)
(***************************************************************************)
EXTENDS Integers, Sequences, FiniteSets, TLC

VARIABLES
    \* ---- the sqlite store (shared by every run) ----
    tracks,                \* table tracks: set of [id, spotify_id, title]
    tracks_seq,            \* AUTOINCREMENT counter of tracks.id
    lyrics,                \* table lyrics: set of [id, track_id, genius_url, lyrics]
    lyrics_idx,            \* fts5 table lyrics_idx: set of [rowid, term, positions]
    lyrics_idx_data,       \* its totals: [nTotalRow, aTotalSize]
    lyrics_seq,            \* AUTOINCREMENT counter of lyrics.id
    \* ---- the provider (genius.com), fixed for a behaviour ----
    provider,              \* song (spotify id) -> what genius.com has for it
    \* ---- one `pull` process per run ----
    pc,                    \* run -> position of the coordinator in pull()
    track_iter,            \* run -> rows of the backlog cursor not yet fetched
    n_put,                 \* run -> number of tracks put on queue_track_details
    n_tracks,              \* run -> result of the COUNT(*) query
    n_seen,                \* run -> results taken off queue_lyrics_results (pb.update)
    drain_res,             \* run -> `res` of the turn of the drain loop whose commit waits
    queue_track_details,   \* run -> FIFO
    queue_search_results,  \* run -> FIFO
    queue_lyrics_results,  \* run -> FIFO
    search_workers,        \* run -> worker -> [pc, item]
    lyrics_workers,        \* run -> worker -> [pc, item]
    \* ---- one call of Genius.search_song, for the resolver's claims ----
    q_title, q_hits, q_pc, q_result,
    \* ---- one call of ravelibrarian.reconcile ----
    crate,                 \* argument: list of CrateTrack
    online,                \* argument: list of SpotifyTrack
    WRatio,                \* crate position -> online position -> title score
    partial_ratio,         \* crate position -> online position -> artist score
    rc_pc,                 \* position in reconcile()
    offline_item,          \* position of the outer loop in crate
    pairs,                 \* local: list of (CrateTrack, SpotifyTrack)
    online_only,           \* local: set of positions of online
    discrepancies          \* the returned Discrepancies, or None

store_vars == <<tracks, tracks_seq, lyrics, lyrics_idx, lyrics_idx_data, lyrics_seq>>
run_vars == <<pc, track_iter, n_put, n_tracks, n_seen, drain_res, queue_track_details,
              queue_search_results, queue_lyrics_results, search_workers,
              lyrics_workers>>
query_vars == <<q_title, q_hits, q_pc, q_result>>
reconcile_vars == <<crate, online, WRatio, partial_ratio, rc_pc, offline_item,
                    pairs, online_only, discrepancies>>
vars == <<store_vars, provider, run_vars, query_vars, reconcile_vars>>

-----------------------------------------------------------------------------
(* Bounds of the model.                                                    *)

NumTracks == 2          \* songs saved in the Spotify library
MaxSyncs == 1           \* calls of sync after the one that filled the store
NumRuns == 2            \* `pull` processes on the same store
NSearchWorkers == 2     \* --n-search-workers
NLyricsWorkers == 2     \* --n-lyrics-workers
MaxHits == 2            \* hits of one search response (SpecSearch)

\* The spotify ids of the songs of the library.
Songs == 1..NumTracks
\* The ids table tracks can give out: a sync uses up one id for every song of
\* the library, saved before or not.
TrackIds == 1..(NumTracks - 1 + MaxSyncs * NumTracks)
Runs == 1..NumRuns
SearchWorkerIds == 1..NSearchWorkers
LyricsWorkerIds == 1..NLyricsWorkers

-----------------------------------------------------------------------------
(* Python values.                                                          *)

None == [kind |-> "None"]
PyBool(b) == [kind |-> "bool", val |-> b]
PyStr(s) == [kind |-> "str", text |-> s]

\* bool(x): None, False and the empty string are falsy; dataclass instances
\* and non-empty dicts are truthy.
truthy(x) ==
    CASE x.kind = "None" -> FALSE
      [] x.kind = "bool" -> x.val
      [] x.kind = "str" -> x.text # <<>>
      [] OTHER -> TRUE

-----------------------------------------------------------------------------
(* genius.py: title normalisation.                                         *)

Uppers == <<"A", "B", "C", "D", "E", "F", "G", "H", "I", "J", "K", "L", "M",
            "N", "O", "P", "Q", "R", "S", "T", "U", "V", "W", "X", "Y", "Z">>
Lowers == <<"a", "b", "c", "d", "e", "f", "g", "h", "i", "j", "k", "l", "m",
            "n", "o", "p", "q", "r", "s", "t", "u", "v", "w", "x", "y", "z">>

\* str.isspace() on the characters of the model (U+200B is not whitespace).
IsSpace(c) == c \in {" ", "\n", "\t"}

\* x.translate({0x2019: None, 0x200b: None})
RECURSIVE translate(_)
translate(x) ==
    IF x = <<>> THEN <<>>
    ELSE IF Head(x) \in {"U2019", "U200B"} THEN translate(Tail(x))
    ELSE <<Head(x)>> \o translate(Tail(x))

\* x.strip()
RECURSIVE lstrip(_)
lstrip(x) ==
    IF x # <<>> /\ IsSpace(Head(x)) THEN lstrip(Tail(x)) ELSE x

RECURSIVE rstrip(_)
rstrip(x) ==
    IF x # <<>> /\ IsSpace(x[Len(x)]) THEN rstrip(SubSeq(x, 1, Len(x) - 1)) ELSE x

strip(x) == rstrip(lstrip(x))

\* str.lower() of one character: ASCII capitals, and the fullwidth capital
\* U+FF33 whose lower case is U+FF53; U+210B (a capital with no lower-case
\* mapping) and everything else is left alone.
lower_char(c) ==
    IF \E i \in 1..Len(Uppers) : Uppers[i] = c
    THEN Lowers[CHOOSE i \in 1..Len(Uppers) : Uppers[i] = c]
    ELSE IF c = "UFF33" THEN "UFF53"
    ELSE c

lower(x) == [i \in 1..Len(x) |-> lower_char(x[i])]

\* unicodedata.normalize('NFKC', .) of one character: the compatibility
\* characters of the model map to their ASCII letter.
nfkc_char(c) ==
    CASE c = "UFF33" -> "S"
      [] c = "UFF53" -> "s"
      [] c = "U210B" -> "H"
      [] OTHER -> c

nfkc(x) == [i \in 1..Len(x) |-> nfkc_char(x[i])]

str_normalize(x) == nfkc(lower(strip(translate(x))))

title_matches(us, other) == str_normalize(us) = str_normalize(other)

-----------------------------------------------------------------------------
(* genius.py: the denylist and the two passes of search_song.              *)

\* A song of a search response (hit['result']).
Song(title, url, lyrics_state, instrumental) ==
    [kind |-> "song", title |-> title, url |-> url,
     lyrics_state |-> lyrics_state, instrumental |-> instrumental]

HasAt(x, i, p) ==
    /\ i >= 1
    /\ i + Len(p) - 1 <= Len(x)
    /\ SubSeq(x, i, i + Len(p) - 1) = p

Contains(x, p) == \E i \in 1..Len(x) : HasAt(x, i, p)

\* The literal patterns of title_skip_patterns ('album art(work)?' matches
\* exactly where 'album art' does); 'track\s?list' is matched below.
title_skip_literals ==
    { <<"a","l","b","u","m"," ","a","r","t">>,
      <<"l","i","n","e","r"," ","n","o","t","e","s">>,
      <<"b","o","o","k","l","e","t">>,
      <<"c","r","e","d","i","t","s">>,
      <<"i","n","t","e","r","v","i","e","w">>,
      <<"s","k","i","t">>,
      <<"i","n","s","t","r","u","m","e","n","t","a","l">>,
      <<"s","e","t","l","i","s","t">> }

\* 'track\s?list'
matches_track_list(x) ==
    \E i \in 1..Len(x) :
        /\ HasAt(x, i, <<"t","r","a","c","k">>)
        /\ \/ HasAt(x, i + 5, <<"l","i","s","t">>)
           \/ /\ i + 5 <= Len(x)
              /\ IsSpace(x[i + 5])
              /\ HasAt(x, i + 6, <<"l","i","s","t">>)

\* self._title_skip_re.search(title): the pattern is compiled without
\* re.IGNORECASE, so the match is case-sensitive.
title_skip_search(x) ==
    \/ matches_track_list(x)
    \/ \E p \in title_skip_literals : Contains(x, p)

\* A _has_lyrics that skips the title denylist and ends in `return True`.
has_lyrics_no_skip(song) ==
    IF song.lyrics_state # "complete" \/ truthy(song.instrumental)
    THEN PyBool(FALSE)
    ELSE PyBool(TRUE)

\* Genius._has_lyrics: both `return False` branches, and the fall off the
\* end of the function, which returns None.
has_lyrics(song) ==
    IF song.lyrics_state # "complete" \/ truthy(song.instrumental)
    THEN PyBool(FALSE)
    ELSE IF title_skip_search(song.title) THEN PyBool(FALSE)
    ELSE None

\* An exact pass that compares the raw titles.
RECURSIVE exact_pass_raw(_, _)
exact_pass_raw(hits, title) ==
    IF hits = <<>> THEN None
    ELSE IF Head(hits).title = title THEN Head(hits)
    ELSE exact_pass_raw(Tail(hits), title)

\* search_song, first loop: the first hit whose title matches, else fall
\* through (None here).
RECURSIVE exact_pass(_, _)
exact_pass(hits, title) ==
    IF hits = <<>> THEN None
    ELSE IF title_matches(Head(hits).title, title) THEN Head(hits)
    ELSE exact_pass(Tail(hits), title)

\* search_song, second loop: the first hit for which _has_lyrics is truthy.
RECURSIVE fallback_pass(_)
fallback_pass(hits) ==
    IF hits = <<>> THEN None
    ELSE IF truthy(has_lyrics(Head(hits))) THEN Head(hits)
    ELSE fallback_pass(Tail(hits))

\* Genius.search_song(title, artist) on the hits of the first section of the
\* response to the query "<title> <artist>".
search_song(title, hits) ==
    LET exact == exact_pass(hits, title)
    IN IF exact.kind # "None" THEN exact ELSE fallback_pass(hits)

-----------------------------------------------------------------------------
(* lyricspider.py, DB.MIGRATIONS: the lyrics table and its shadow index.   *)

\* Lyric text is a sequence of tokens: words, and "\n" between the chunks
\* that get_lyrics joins.
Words == {"la", "na"}

LyricsRow(id, track_id, genius_url, text) ==
    [id |-> id, track_id |-> track_id, genius_url |-> genius_url, lyrics |-> text]

\* The number of the token at place i of a text, counting words from 1 (the
\* "\n" between chunks is a separator, not a token).
token_no(text, i) == Cardinality({j \in 1..i : text[j] # "\n"})

\* The positions fts5 recorded for term when it indexed text.
positions(text, term) == {token_no(text, i) : i \in {j \in 1..Len(text) : text[j] = term}}

\* The words of a text, as the fts5 tokenizer splits it.
words(text) == {text[i] : i \in 1..Len(text)} \ {"\n"}

\* What fts5 writes into lyrics_idx when it indexes text under rowid: for
\* every word of the text one posting, with the positions of the word.
IdxRow(rowid, text) ==
    {[rowid |-> rowid, term |-> w, positions |-> positions(text, w)] : w \in words(text)}

\* The postings of idx that a statement about (rowid, text) touches: those of
\* that rowid for a word of that text, whichever insert wrote them.
touched(idx, rowid, text) == {e \in idx : e.rowid = rowid /\ e.term \in words(text)}

\* An index without the uniqueness of track_id.
idx_lyrics_track_id_absent(rows, track_id) == FALSE

\* MIGRATION 2, CREATE UNIQUE INDEX idx_lyrics_track_id ON lyrics(track_id):
\* whether a new row for track_id violates it.
idx_lyrics_track_id(rows, track_id) == \E row \in rows : row.track_id = track_id

\* sqlite3.DatabaseError('database disk image is malformed'), which fts5
\* raises when it finds its index inconsistent.
DatabaseError == "DatabaseError"

\* The number of tokens of a text.
szCol(text) == Cardinality({i \in 1..Len(text) : text[i] # "\n"})

\* The fts5 table as its statements see it: the postings, and the totals
\* (rows indexed, tokens indexed) that fts5 keeps beside them.
Fts5(postings, data) == [postings |-> postings, data |-> data]
Totals(nTotalRow, aTotalSize) == [nTotalRow |-> nTotalRow, aTotalSize |-> aTotalSize]

\* INSERT INTO lyrics_idx(rowid, lyrics): the index keeps one posting per rowid
\* and word, so the postings of the text take the place of those an earlier
\* insert under the same rowid left for the same words; a word only the
\* earlier text had keeps its earlier positions.  The totals grow by one row
\* and the tokens of the text.
fts5_insert(idx, rowid, text) ==
    Fts5((idx.postings \ touched(idx.postings, rowid, text)) \cup IdxRow(rowid, text),
         Totals(idx.data.nTotalRow + 1, idx.data.aTotalSize + szCol(text)))

\* Whether fts5 refuses the 'delete' command for a text: it would take the
\* token total below zero, or no row is counted as indexed.
fts5_corrupt(idx, text) ==
    \/ idx.data.aTotalSize - szCol(text) < 0
    \/ idx.data.nTotalRow < 1

\* INSERT INTO lyrics_idx(lyrics_idx, rowid, lyrics) VALUES ('delete', ...):
\* takes out of the index the postings of the rowid for the words of the text,
\* whichever insert wrote them, and the totals shrink by one row and the
\* tokens of the text; a refused command raises and leaves the index as it
\* was.
fts5_delete(idx, rowid, text) ==
    IF fts5_corrupt(idx, text)
    THEN [raises |-> DatabaseError, idx |-> idx]
    ELSE [raises |-> "None",
          idx |-> Fts5(idx.postings \ touched(idx.postings, rowid, text),
                       Totals(idx.data.nTotalRow - 1, idx.data.aTotalSize - szCol(text)))]

\* An insert trigger that was never created.
idxtrig_lyrics_insert_absent(idx, new) == idx

\* CREATE TRIGGER idxtrig_lyrics_insert AFTER INSERT ON lyrics
idxtrig_lyrics_insert(idx, new) == fts5_insert(idx, new.id, new.lyrics)

\* A delete trigger that was never created.
idxtrig_lyrics_delete_absent(idx, old) == [raises |-> "None", idx |-> idx]

\* CREATE TRIGGER idxtrig_lyrics_delete AFTER DELETE ON lyrics: what the
\* trigger raises and the index it leaves.
idxtrig_lyrics_delete(idx, old) == fts5_delete(idx, old.id, old.lyrics)

\* CREATE TRIGGER idxtrig_lyrics_update AFTER UPDATE ON lyrics: the 'delete'
\* command for the old text, then the insert of the new one.
idxtrig_lyrics_update(idx, old, new) ==
    LET deleted == idxtrig_lyrics_delete(idx, old)
    IN IF deleted.raises # "None" THEN deleted
       ELSE [raises |-> "None", idx |-> idxtrig_lyrics_insert(deleted.idx, new)]

\* A row of table tracks (of its columns, artists and spotify_metadata are
\* left out: no statement of pull or search depends on them).
TrackRow(id, spotify_id, title) == [id |-> id, spotify_id |-> spotify_id, title |-> title]

\* SELECT tracks.id, tracks.title: the columns of a track the backlog query
\* returns.
id_title(t) == [id |-> t.id, title |-> t.title]

\* A backlog query without its WHERE clause.
backlog_rows_all == {id_title(t) : t \in tracks}

\* A backlog query that keeps the tracks that do have lyrics.
backlog_rows_joined ==
    {id_title(t) : t \in {u \in tracks : \E row \in lyrics : row.track_id = u.id}}

\* The backlog query of pull: tracks LEFT JOIN lyrics WHERE lyrics.track_id
\* IS NULL, as (id, title) rows.
backlog_rows ==
    {id_title(t) : t \in {u \in tracks : ~ \E row \in lyrics : row.track_id = u.id}}

\* The rows of a set in rowid order, the order sqlite scans table tracks in.
RECURSIVE by_id(_)
by_id(rows) ==
    IF rows = {} THEN <<>>
    ELSE LET first == CHOOSE t \in rows : \A u \in rows : t.id <= u.id
         IN <<first>> \o by_id(rows \ {first})

\* fts5 highlight(lyrics_idx, 0, '<b>', '</b>') on an external-content table:
\* the text of the content row with the delimiters around the tokens at the
\* positions the index recorded for the query (marks), from place i on.
RECURSIVE highlight_from(_, _, _)
highlight_from(text, marks, i) ==
    IF i > Len(text) THEN <<>>
    ELSE (IF text[i] # "\n" /\ token_no(text, i) \in marks
          THEN <<"<b>", text[i], "</b>">> ELSE <<text[i]>>)
         \o highlight_from(text, marks, i + 1)

highlight(text, marks) == highlight_from(text, marks, 1)

\* lyrics_idx.lyrics MATCH term, for a one-word query: the postings of the
\* word.
fts_match(idx, term) == {e \in idx : e.term = term}

\* The query of `search`, with what fetchall() raises and the rows it returns:
\* the rowids of the matching index entries, LEFT JOINed to lyrics and tracks
\* (a missing track joins as NULL, written None).  lyrics_idx is an
\* external-content table (content='lyrics'), so the lyrics column and the
\* text that highlight() marks are read from the row of table lyrics with that
\* rowid, and the marks are put at the positions of the posting of the word
\* for that rowid, which are those of the newest text indexed under the rowid
\* that has the word; when a matching rowid has no such row the statement
\* fails and no row is returned.
search(term) ==
    LET matching == fts_match(lyrics_idx, term)
        rowids == {e.rowid : e \in matching}
        content(rowid) == {row \in lyrics : row.id = rowid}
        marks(rowid) == (CHOOSE e \in matching : e.rowid = rowid).positions
    IN IF \E rowid \in rowids : content(rowid) = {}
       THEN [raises |-> DatabaseError, rows |-> {}]
       ELSE [raises |-> "None",
             rows |-> { LET row == CHOOSE row \in content(rowid) : TRUE
                            joined == {t \in tracks : t.id = row.track_id}
                        IN [rowid |-> rowid,
                            title |-> IF joined = {} THEN None
                                      ELSE PyStr((CHOOSE t \in joined : TRUE).title),
                            lyrics |-> PyStr(row.lyrics),
                            highlighted |-> PyStr(highlight(row.lyrics, marks(rowid)))]
                        : rowid \in rowids }]

-----------------------------------------------------------------------------
(* The provider: what genius.com answers for a track of the catalog.       *)

T_Song == <<"S", "o", "n", "g">>
T_song == <<"s", "o", "n", "g">>
T_SongLive == <<"S", "o", "n", "g", " ", "(", "L", "i", "v", "e", ")">>

Url(t) == "https://genius.com/" \o ToString(t)

\* The answers the search for a song can get: a hit with the track's title and a lyrics
\* page; no hit; only a differently titled hit with complete lyrics; a hit
\* whose page has no lyrics container; a hit whose one container is empty.
Scenarios == {"exact", "nohits", "fallback", "nocontainer", "emptytext"}

\* What genius.com has for the song of track t.
outcome(t) == provider[(CHOOSE row \in tracks : row.id = t).spotify_id]

\* resp['response']['sections'][0]['hits'], each hit's 'result'.
provider_hits(t) ==
    CASE outcome(t) = "nohits" -> <<>>
      [] outcome(t) = "fallback" ->
            <<Song(T_SongLive, Url(t), "complete", PyBool(FALSE))>>
      [] OTHER -> <<Song(T_song, Url(t), "complete", PyBool(FALSE))>>

\* The text of the elements of the page at url that carry
\* data-lyrics-container, in document order.
provider_page(url) ==
    LET t == CHOOSE t \in TrackIds : Url(t) = url
    IN CASE outcome(t) = "nocontainer" -> <<>>
         [] outcome(t) = "emptytext" -> << <<>> >>
         [] OTHER -> << <<"la">>, <<"na", "la">> >>

-----------------------------------------------------------------------------
(* sync(): the saved tracks of the Spotify library are written to tracks.  *)

\* item['track'] of a page of sp.current_user_saved_tracks: its 'id' and
\* 'name'.
SavedTrack(id, name) == [id |-> id, name |-> name]

\* The items of a library of n songs in the order Spotify lists them, the
\* song saved last first.
saved_tracks(n) == [i \in 1..n |-> SavedTrack(n + 1 - i, T_Song)]

\* Lines 135-158: executemany of INSERT INTO tracks ... ON CONFLICT(spotify_id)
\* DO NOTHING over the items of a page.  AUTOINCREMENT gives every row of the
\* statement the next id, and a row that conflicts with idx_tracks_spotify_id
\* is dropped with its id used up.
RECURSIVE insert_tracks(_, _, _)
insert_tracks(table, seq, items) ==
    IF items = <<>> THEN [tracks |-> table, seq |-> seq]
    ELSE LET item == Head(items)
             conflict == \E t \in table : t.spotify_id = item.id
         IN insert_tracks(IF conflict THEN table
                          ELSE table \cup {TrackRow(seq + 1, item.id, item.name)},
                          seq + 1, Tail(items))

\* A commit takes sqlite's exclusive lock, which is not given while a cursor
\* of another connection is on a row: the backlog cursor of a run that still
\* has rows to hand out.
Locked(r) == \E r2 \in Runs \ {r} : track_iter[r2] # <<>>

\* A run whose commit waits holds sqlite's pending lock, which lets no other
\* connection begin to read or to write.
Pending(r) == \E r2 \in Runs \ {r} : pc[r2] = "commit"

\* No run keeps a client that is not a run from writing and committing.
Unlocked == \A r \in Runs : track_iter[r] = <<>> /\ pc[r] # "commit"

\* sync(), for a library that fits one page (page_size is 25): the page is
\* written in one transaction.  While a run holds its backlog cursor open the
\* commit waits or fails with OperationalError, and the store stays as it is.
sync(items) ==
    /\ Unlocked
    /\ tracks_seq + Len(items) <= NumTracks - 1 + MaxSyncs * NumTracks
    /\ LET after == insert_tracks(tracks, tracks_seq, items)
       IN /\ tracks' = after.tracks
          /\ tracks_seq' = after.seq
    /\ UNCHANGED <<lyrics, lyrics_idx, lyrics_idx_data, lyrics_seq, provider, run_vars,
                   query_vars, reconcile_vars>>

-----------------------------------------------------------------------------
(* lyricspider.py: the values that travel through the queues.              *)

SpotifyTrackDetails(tid, title) == [kind |-> "SpotifyTrackDetails", tid |-> tid, title |-> title]

SearchResult(track, genius_result) ==
    [kind |-> "SearchResult", track |-> track, genius_result |-> genius_result]

LyricsResult(track, genius_result, text) ==
    [kind |-> "LyricsResult", track |-> track, genius_result |-> genius_result,
     lyrics |-> text]

\* "\n".join(lyrics_chunks)
RECURSIVE join_chunks(_)
join_chunks(chunks) ==
    IF Len(chunks) = 1 THEN Head(chunks)
    ELSE Head(chunks) \o <<"\n">> \o join_chunks(Tail(chunks))

\* An extractor that requests the page of the track whether or not the search
\* gave a candidate.
get_lyrics_fetch_always(search_res) ==
    LET lyrics_chunks == provider_page(Url(search_res.track.tid))
    IN IF lyrics_chunks = <<>> THEN None
       ELSE PyStr(join_chunks(lyrics_chunks))

\* An extractor that keeps the first lyrics container only.
get_lyrics_first_chunk(search_res) ==
    IF ~ truthy(search_res.genius_result) THEN None
    ELSE LET lyrics_chunks == provider_page(search_res.genius_result.url)
         IN IF lyrics_chunks = <<>> THEN None
            ELSE PyStr(Head(lyrics_chunks))

\* get_lyrics(session, search_res), when session.get returns a response.
get_lyrics(search_res) ==
    IF ~ truthy(search_res.genius_result) THEN None
    ELSE LET lyrics_chunks == provider_page(search_res.genius_result.url)
         IN IF lyrics_chunks = <<>> THEN None
            ELSE PyStr(join_chunks(lyrics_chunks))

Worker(state, item) == [pc |-> state, item |-> item]

-----------------------------------------------------------------------------
(* Initial states.                                                         *)

\* The store after migrate() and one sync of a library of n songs, before
\* any pull.
InitStore(n) ==
    /\ LET after == insert_tracks({}, 0, saved_tracks(n))
       IN /\ tracks = after.tracks
          /\ tracks_seq = after.seq
    /\ lyrics = {}
    /\ lyrics_idx = {}
    /\ lyrics_idx_data = Totals(0, 0)
    /\ lyrics_seq = 0

InitRuns ==
    /\ pc = [r \in Runs |-> "idle"]
    /\ track_iter = [r \in Runs |-> <<>>]
    /\ n_put = [r \in Runs |-> 0]
    /\ n_tracks = [r \in Runs |-> 0]
    /\ n_seen = [r \in Runs |-> 0]
    /\ drain_res = [r \in Runs |-> None]
    /\ queue_track_details = [r \in Runs |-> <<>>]
    /\ queue_search_results = [r \in Runs |-> <<>>]
    /\ queue_lyrics_results = [r \in Runs |-> <<>>]
    /\ search_workers = [r \in Runs |-> [w \in SearchWorkerIds |-> Worker("new", None)]]
    /\ lyrics_workers = [r \in Runs |-> [w \in LyricsWorkerIds |-> Worker("new", None)]]

NoQuery ==
    /\ q_title = <<>>
    /\ q_hits = <<>>
    /\ q_pc = "idle"
    /\ q_result = None

\* No call of reconcile is made.
NoReconcile ==
    /\ crate = <<>>
    /\ online = <<>>
    /\ WRatio = <<>>
    /\ partial_ratio = <<>>
    /\ rc_pc = "idle"
    /\ offline_item = 0
    /\ pairs = <<>>
    /\ online_only = {}
    /\ discrepancies = None

\* The library held all its songs but the newest when sync last ran.
Init ==
    /\ NoReconcile
    /\ InitStore(NumTracks - 1)
    /\ provider \in [Songs -> Scenarios]
    /\ InitRuns
    /\ NoQuery

\* The store holds the whole library.
InitSynced ==
    /\ NoReconcile
    /\ InitStore(NumTracks)
    /\ provider \in [Songs -> Scenarios]
    /\ InitRuns
    /\ NoQuery

-----------------------------------------------------------------------------
(* pull(): the coordinator.                                                *)

\* Lines 276-290: the queues are created and every worker process started.
pull_start(r) ==
    /\ pc[r] = "idle"
    /\ pc' = [pc EXCEPT ![r] = "select"]
    /\ search_workers' = [search_workers EXCEPT ![r] =
                             [w \in SearchWorkerIds |-> Worker("get", None)]]
    /\ lyrics_workers' = [lyrics_workers EXCEPT ![r] =
                             [w \in LyricsWorkerIds |-> Worker("get", None)]]
    /\ UNCHANGED <<store_vars, provider, track_iter, n_put, n_tracks, n_seen, drain_res,
                   queue_track_details, queue_search_results,
                   queue_lyrics_results, query_vars, reconcile_vars>>

\* Lines 292-296: the backlog query is executed; its rows are those of the
\* store as it is now.  The statement waits while the commit of another run
\* is pending.
pull_select(r) ==
    /\ pc[r] = "select"
    /\ ~ Pending(r)
    /\ track_iter' = [track_iter EXCEPT ![r] = by_id(backlog_rows)]
    /\ pc' = [pc EXCEPT ![r] = "put"]
    /\ UNCHANGED <<store_vars, provider, n_put, n_tracks, n_seen, drain_res,
                   queue_track_details, queue_search_results,
                   queue_lyrics_results, search_workers, lyrics_workers,
                   query_vars, reconcile_vars>>

\* Lines 297-298: one turn of `for row in track_iter`.
pull_put(r) ==
    /\ pc[r] = "put"
    /\ track_iter[r] # <<>>
    /\ LET row == Head(track_iter[r])
       IN queue_track_details' = [queue_track_details EXCEPT ![r] =
              Append(@, SpotifyTrackDetails(row.id, row.title))]
    /\ track_iter' = [track_iter EXCEPT ![r] = Tail(@)]
    /\ n_put' = [n_put EXCEPT ![r] = @ + 1]
    /\ UNCHANGED <<store_vars, provider, pc, n_tracks, n_seen, drain_res,
                   queue_search_results, queue_lyrics_results, search_workers,
                   lyrics_workers, query_vars, reconcile_vars>>

\* A coordinator that goes on to the COUNT(*) and the drain loop before the
\* cursor is exhausted.
pull_count_early(r) ==
    /\ pc[r] = "put"
    /\ ~ Pending(r)
    /\ n_tracks' = [n_tracks EXCEPT ![r] = Cardinality(backlog_rows)]
    /\ pc' = [pc EXCEPT ![r] = "drain"]
    /\ UNCHANGED <<store_vars, provider, track_iter, n_put, n_seen, drain_res,
                   queue_track_details, queue_search_results,
                   queue_lyrics_results, search_workers, lyrics_workers,
                   query_vars, reconcile_vars>>

\* Lines 298-301: the loop over track_iter ends (nothing is put on any queue
\* after the last track) and the COUNT(*) query gives n_tracks.
pull_count(r) ==
    /\ pc[r] = "put"
    /\ track_iter[r] = <<>>
    /\ ~ Pending(r)
    /\ n_tracks' = [n_tracks EXCEPT ![r] = Cardinality(backlog_rows)]
    /\ pc' = [pc EXCEPT ![r] = "drain"]
    /\ UNCHANGED <<store_vars, provider, track_iter, n_put, n_seen, drain_res,
                   queue_track_details, queue_search_results,
                   queue_lyrics_results, search_workers, lyrics_workers,
                   query_vars, reconcile_vars>>

\* Lines 310-313: the INSERT INTO lyrics of a result, with the trigger it
\* fires.
write_lyrics(res) ==
    LET new == LyricsRow(lyrics_seq + 1, res.track.tid,
                         res.genius_result.url, res.lyrics.text)
    IN /\ lyrics' = lyrics \cup {new}
       /\ LET idx == idxtrig_lyrics_insert(Fts5(lyrics_idx, lyrics_idx_data), new)
          IN /\ lyrics_idx' = idx.postings
             /\ lyrics_idx_data' = idx.data
       /\ lyrics_seq' = lyrics_seq + 1

\* A sink that skips a result only when its lyrics are None.
sink_skips_only_none(res) == res.lyrics.kind = "None"

\* Lines 306-307: `if not res.lyrics: continue`.
sink_skips(res) == ~ truthy(res.lyrics)

\* A sink that keeps a result only when it arrives in submission order: a
\* result for a track that comes before one already recorded is dropped.
insert_lyrics_in_order(r, res) ==
    IF \E row \in lyrics : row.track_id >= res.track.tid
    THEN UNCHANGED <<pc, drain_res, lyrics, lyrics_idx, lyrics_idx_data, lyrics_seq>>
    ELSE IF Locked(r)
    THEN /\ pc' = [pc EXCEPT ![r] = "commit"]
         /\ drain_res' = [drain_res EXCEPT ![r] = res]
         /\ UNCHANGED <<lyrics, lyrics_idx, lyrics_idx_data, lyrics_seq>>
    ELSE /\ write_lyrics(res)
         /\ UNCHANGED <<pc, drain_res>>

\* A sink whose statement is INSERT OR REPLACE: the row of the track, if there
\* is one, is deleted and the new row takes its place.
insert_lyrics_or_replace(r, res) ==
    IF Locked(r)
    THEN /\ pc' = [pc EXCEPT ![r] = "commit"]
         /\ drain_res' = [drain_res EXCEPT ![r] = res]
         /\ UNCHANGED <<lyrics, lyrics_idx, lyrics_idx_data, lyrics_seq>>
    ELSE LET new == LyricsRow(lyrics_seq + 1, res.track.tid,
                              res.genius_result.url, res.lyrics.text)
             old == {row \in lyrics : row.track_id = res.track.tid}
         IN /\ lyrics' = (lyrics \ old) \cup {new}
            /\ LET idx == idxtrig_lyrics_insert(
                              Fts5(lyrics_idx \ UNION {IdxRow(row.id, row.lyrics) : row \in old},
                                   lyrics_idx_data), new)
               IN /\ lyrics_idx' = idx.postings
                  /\ lyrics_idx_data' = idx.data
            /\ lyrics_seq' = lyrics_seq + 1
            /\ UNCHANGED <<pc, drain_res>>

\* Lines 309-313: `with db.conn:` around the INSERT.  The statement and the
\* trigger it fires are one transaction; a violation of idx_lyrics_track_id
\* raises sqlite3.IntegrityError, the transaction is rolled back and the
\* exception leaves pull().  The commit at the end of the block takes the
\* exclusive lock: while another run keeps its backlog cursor open the commit
\* waits, with the result taken and counted and nothing written yet.
insert_lyrics(r, res) ==
    IF idx_lyrics_track_id(lyrics, res.track.tid)
    THEN /\ pc' = [pc EXCEPT ![r] = "IntegrityError"]
         /\ UNCHANGED <<drain_res, lyrics, lyrics_idx, lyrics_idx_data, lyrics_seq>>
    ELSE IF Locked(r)
    THEN /\ pc' = [pc EXCEPT ![r] = "commit"]
         /\ drain_res' = [drain_res EXCEPT ![r] = res]
         /\ UNCHANGED <<lyrics, lyrics_idx, lyrics_idx_data, lyrics_seq>>
    ELSE /\ write_lyrics(res)
         /\ UNCHANGED <<pc, drain_res>>

\* Line 313, the end of `with db.conn:` for a commit that had to wait.  When
\* the other run's cursor is exhausted the commit goes through (a statement
\* that was held up with it is executed first, and fails on a row that has
\* come to exist); as long as the cursor stays open the connection's timeout
\* (5 s) may run out, and sqlite3.OperationalError ('database is locked')
\* leaves pull() with nothing written.
pull_commit(r) ==
    /\ pc[r] = "commit"
    /\ IF Locked(r)
       THEN /\ pc' = [pc EXCEPT ![r] = "OperationalError"]
            /\ UNCHANGED <<lyrics, lyrics_idx, lyrics_idx_data, lyrics_seq>>
       ELSE IF idx_lyrics_track_id(lyrics, drain_res[r].track.tid)
       THEN /\ pc' = [pc EXCEPT ![r] = "IntegrityError"]
            /\ UNCHANGED <<lyrics, lyrics_idx, lyrics_idx_data, lyrics_seq>>
       ELSE /\ write_lyrics(drain_res[r])
            /\ pc' = [pc EXCEPT ![r] = "drain"]
    /\ drain_res' = [drain_res EXCEPT ![r] = None]
    /\ UNCHANGED <<tracks, tracks_seq, provider, track_iter, n_put, n_tracks,
                   n_seen, queue_track_details, queue_search_results,
                   queue_lyrics_results, search_workers, lyrics_workers,
                   query_vars, reconcile_vars>>

\* Lines 303-316: one turn of `while res := queue_lyrics_results.get()`, which
\* blocks while the queue is empty and leaves the loop on a falsy value; after
\* the loop, the join of every worker.
pull_drain(r) ==
    /\ pc[r] \in {"drain", "join"}
    /\ IF pc[r] = "drain"
       THEN /\ queue_lyrics_results[r] # <<>>
            /\ queue_lyrics_results' = [queue_lyrics_results EXCEPT ![r] = Tail(@)]
            /\ LET res == Head(queue_lyrics_results[r])
               IN IF ~ truthy(res)
                  THEN /\ pc' = [pc EXCEPT ![r] = "join"]
                       /\ UNCHANGED <<n_seen, drain_res, lyrics, lyrics_idx, lyrics_idx_data, lyrics_seq>>
                  ELSE /\ n_seen' = [n_seen EXCEPT ![r] = @ + 1]
                       /\ IF sink_skips(res)
                          THEN UNCHANGED <<pc, drain_res, lyrics, lyrics_idx, lyrics_idx_data, lyrics_seq>>
                          ELSE insert_lyrics(r, res)
       ELSE /\ \A w \in SearchWorkerIds : search_workers[r][w].pc \in {"exited", "crashed"}
            /\ \A w \in LyricsWorkerIds : lyrics_workers[r][w].pc \in {"exited", "crashed"}
            /\ pc' = [pc EXCEPT ![r] = "done"]
            /\ UNCHANGED <<n_seen, drain_res, lyrics, lyrics_idx, lyrics_idx_data, lyrics_seq,
                           queue_lyrics_results>>
    /\ UNCHANGED <<tracks, tracks_seq, provider, track_iter, n_put, n_tracks,
                   queue_track_details, queue_search_results, search_workers,
                   lyrics_workers, query_vars, reconcile_vars>>

-----------------------------------------------------------------------------
(* The worker processes.                                                   *)

\* A search worker that reads the first track of the queue and leaves it there.
worker_genius_search_get_peek(r, w) ==
    /\ search_workers[r][w].pc = "get"
    /\ queue_track_details[r] # <<>>
    /\ LET track_details == Head(queue_track_details[r])
       IN search_workers' = [search_workers EXCEPT ![r][w] =
              IF truthy(track_details) THEN Worker("busy", track_details)
              ELSE Worker("exited", None)]
    /\ UNCHANGED <<store_vars, provider, pc, track_iter, n_put, n_tracks,
                   n_seen, drain_res, queue_track_details, queue_search_results,
                   queue_lyrics_results, lyrics_workers, query_vars, reconcile_vars>>

\* A search worker that passes the sentinel on to the candidate queue before
\* it exits.
worker_genius_search_get_forwarding(r, w) ==
    /\ search_workers[r][w].pc = "get"
    /\ queue_track_details[r] # <<>>
    /\ LET track_details == Head(queue_track_details[r])
       IN IF truthy(track_details)
          THEN /\ search_workers' = [search_workers EXCEPT ![r][w] =
                      Worker("busy", track_details)]
               /\ UNCHANGED queue_search_results
          ELSE /\ search_workers' = [search_workers EXCEPT ![r][w] =
                      Worker("exited", None)]
               /\ queue_search_results' = [queue_search_results EXCEPT ![r] =
                      Append(@, None)]
    /\ queue_track_details' = [queue_track_details EXCEPT ![r] = Tail(@)]
    /\ UNCHANGED <<store_vars, provider, pc, track_iter, n_put, n_tracks,
                   n_seen, drain_res, queue_lyrics_results, lyrics_workers, query_vars, reconcile_vars>>

\* Line 194: `while track_details := queue_track_details.get()` blocks while
\* the queue is empty; a falsy value ends the loop and the process.
worker_genius_search_get(r, w) ==
    /\ search_workers[r][w].pc = "get"
    /\ queue_track_details[r] # <<>>
    /\ LET track_details == Head(queue_track_details[r])
       IN search_workers' = [search_workers EXCEPT ![r][w] =
              IF truthy(track_details) THEN Worker("busy", track_details)
              ELSE Worker("exited", None)]
    /\ queue_track_details' = [queue_track_details EXCEPT ![r] = Tail(@)]
    /\ UNCHANGED <<store_vars, provider, pc, track_iter, n_put, n_tracks,
                   n_seen, drain_res, queue_search_results, queue_lyrics_results,
                   lyrics_workers, query_vars, reconcile_vars>>

\* Lines 198-202: the search answers and its result is put on
\* queue_search_results.
worker_genius_search_put(r, w) ==
    /\ search_workers[r][w].pc = "busy"
    /\ LET track_details == search_workers[r][w].item
           res == search_song(track_details.title, provider_hits(track_details.tid))
       IN queue_search_results' = [queue_search_results EXCEPT ![r] =
              Append(@, SearchResult(track_details, res))]
    /\ search_workers' = [search_workers EXCEPT ![r][w] = Worker("get", None)]
    /\ UNCHANGED <<store_vars, provider, pc, track_iter, n_put, n_tracks,
                   n_seen, drain_res, queue_track_details, queue_lyrics_results,
                   lyrics_workers, query_vars, reconcile_vars>>

\* Lines 198-200: search_song raises (the retries of the session are
\* exhausted, or the response is not the expected JSON).  Nothing in the loop
\* catches it: the exception ends the worker process, with its item.
worker_genius_search_raise(r, w) ==
    /\ search_workers[r][w].pc = "busy"
    /\ search_workers' = [search_workers EXCEPT ![r][w] = Worker("crashed", None)]
    /\ UNCHANGED <<store_vars, provider, pc, track_iter, n_put, n_tracks,
                   n_seen, drain_res, queue_track_details, queue_search_results,
                   queue_lyrics_results, lyrics_workers, query_vars, reconcile_vars>>

\* Line 233: `while search_res := queue_search_results.get()`.
worker_genius_lyrics_get(r, w) ==
    /\ lyrics_workers[r][w].pc = "get"
    /\ queue_search_results[r] # <<>>
    /\ LET search_res == Head(queue_search_results[r])
       IN lyrics_workers' = [lyrics_workers EXCEPT ![r][w] =
              IF truthy(search_res) THEN Worker("busy", search_res)
              ELSE Worker("exited", None)]
    /\ queue_search_results' = [queue_search_results EXCEPT ![r] = Tail(@)]
    /\ UNCHANGED <<store_vars, provider, pc, track_iter, n_put, n_tracks,
                   n_seen, drain_res, queue_track_details, queue_lyrics_results,
                   search_workers, query_vars, reconcile_vars>>

\* A lyrics worker that writes the lyrics it extracted to the store itself.
worker_genius_lyrics_put_and_insert(r, w) ==
    /\ lyrics_workers[r][w].pc = "busy"
    /\ LET search_res == lyrics_workers[r][w].item
           text == get_lyrics(search_res)
           new == LyricsRow(lyrics_seq + 1, search_res.track.tid,
                            search_res.genius_result.url, text.text)
       IN /\ queue_lyrics_results' = [queue_lyrics_results EXCEPT ![r] =
                 Append(@, LyricsResult(search_res.track, search_res.genius_result, None))]
          /\ IF truthy(text) /\ ~ idx_lyrics_track_id(lyrics, search_res.track.tid)
             THEN /\ lyrics' = lyrics \cup {new}
                  /\ LET idx == idxtrig_lyrics_insert(Fts5(lyrics_idx, lyrics_idx_data), new)
                     IN /\ lyrics_idx' = idx.postings
                        /\ lyrics_idx_data' = idx.data
                  /\ lyrics_seq' = lyrics_seq + 1
             ELSE UNCHANGED <<lyrics, lyrics_idx, lyrics_idx_data, lyrics_seq>>
    /\ lyrics_workers' = [lyrics_workers EXCEPT ![r][w] = Worker("get", None)]
    /\ UNCHANGED <<tracks, tracks_seq, provider, pc, track_iter, n_put, n_tracks,
                   n_seen, drain_res, queue_track_details, queue_search_results,
                   search_workers, query_vars, reconcile_vars>>

\* Lines 234-238: get_lyrics returns and the result is put on
\* queue_lyrics_results.
worker_genius_lyrics_put(r, w) ==
    /\ lyrics_workers[r][w].pc = "busy"
    /\ LET search_res == lyrics_workers[r][w].item
       IN queue_lyrics_results' = [queue_lyrics_results EXCEPT ![r] =
              Append(@, LyricsResult(search_res.track, search_res.genius_result,
                                     get_lyrics(search_res)))]
    /\ lyrics_workers' = [lyrics_workers EXCEPT ![r][w] = Worker("get", None)]
    /\ UNCHANGED <<store_vars, provider, pc, track_iter, n_put, n_tracks,
                   n_seen, drain_res, queue_track_details, queue_search_results,
                   search_workers, query_vars, reconcile_vars>>

\* Lines 214-215, 235: session.get raises (this session mounts no retry
\* adapter).  get_lyrics makes no request for a result without a candidate,
\* so only a result with one can fail here.
worker_genius_lyrics_raise(r, w) ==
    /\ lyrics_workers[r][w].pc = "busy"
    /\ truthy(lyrics_workers[r][w].item.genius_result)
    /\ lyrics_workers' = [lyrics_workers EXCEPT ![r][w] = Worker("crashed", None)]
    /\ UNCHANGED <<store_vars, provider, pc, track_iter, n_put, n_tracks,
                   n_seen, drain_res, queue_track_details, queue_search_results,
                   queue_lyrics_results, search_workers, query_vars, reconcile_vars>>

-----------------------------------------------------------------------------
(* Statements of external maintenance on table lyrics, which fire the      *)
(* delete and update triggers.                                             *)

\* DELETE FROM lyrics WHERE id = :id.  When the trigger raises, the statement
\* is rolled back: the row stays and the index is as it was.
delete_lyrics(id) ==
    /\ Unlocked
    /\ \E old \in lyrics :
          /\ old.id = id
          /\ LET fired == idxtrig_lyrics_delete(Fts5(lyrics_idx, lyrics_idx_data), old)
             IN IF fired.raises # "None"
                THEN UNCHANGED <<lyrics, lyrics_idx, lyrics_idx_data>>
                ELSE /\ lyrics' = lyrics \ {old}
                     /\ lyrics_idx' = fired.idx.postings
                     /\ lyrics_idx_data' = fired.idx.data
    /\ UNCHANGED <<tracks, tracks_seq, lyrics_seq, provider, run_vars, query_vars, reconcile_vars>>

\* UPDATE lyrics SET lyrics = :text WHERE id = :id.  When the trigger raises,
\* the statement is rolled back.
update_lyrics(id, text) ==
    /\ Unlocked
    /\ \E old \in lyrics :
          /\ old.id = id
          /\ old.lyrics # text
          /\ LET new == [old EXCEPT !.lyrics = text]
                 fired == idxtrig_lyrics_update(Fts5(lyrics_idx, lyrics_idx_data), old, new)
             IN IF fired.raises # "None"
                THEN UNCHANGED <<lyrics, lyrics_idx, lyrics_idx_data>>
                ELSE /\ lyrics' = (lyrics \ {old}) \cup {new}
                     /\ lyrics_idx' = fired.idx.postings
                     /\ lyrics_idx_data' = fired.idx.data
    /\ UNCHANGED <<tracks, tracks_seq, lyrics_seq, provider, run_vars, query_vars, reconcile_vars>>

\* The texts an UPDATE writes.
UpdateTexts == {<<"na">>}

-----------------------------------------------------------------------------
(* The commands of the program on one store: pull, run by NumRuns          *)
(* processes, and sync.                                                    *)

Next ==
    \/ \E r \in Runs : pull_start(r)
    \/ \E r \in Runs : pull_select(r)
    \/ \E r \in Runs : pull_put(r)
    \/ \E r \in Runs : pull_count(r)
    \/ \E r \in Runs : pull_drain(r)
    \/ \E r \in Runs : pull_commit(r)
    \/ \E r \in Runs, w \in SearchWorkerIds : worker_genius_search_get(r, w)
    \/ \E r \in Runs, w \in SearchWorkerIds : worker_genius_search_put(r, w)
    \/ \E r \in Runs, w \in SearchWorkerIds : worker_genius_search_raise(r, w)
    \/ \E r \in Runs, w \in LyricsWorkerIds : worker_genius_lyrics_get(r, w)
    \/ \E r \in Runs, w \in LyricsWorkerIds : worker_genius_lyrics_put(r, w)
    \/ \E r \in Runs, w \in LyricsWorkerIds : worker_genius_lyrics_raise(r, w)
    \/ \E n \in 1..NumTracks : sync(saved_tracks(n))

Spec == Init /\ [][Next]_vars

\* Run r is the only pull on the store.
Alone(r) == \A r2 \in Runs \ {r} : pc[r2] = "idle"

\* The steps of one invocation of pull by itself on the store (its commits
\* never wait).
NextOnePull ==
    \/ \E r \in Runs, w \in SearchWorkerIds : Alone(r) /\ worker_genius_search_raise(r, w)
    \/ \E r \in Runs, w \in LyricsWorkerIds : Alone(r) /\ worker_genius_lyrics_raise(r, w)
    \/ \E r \in Runs : Alone(r) /\ pull_start(r)
    \/ \E r \in Runs : Alone(r) /\ pull_select(r)
    \/ \E r \in Runs : Alone(r) /\ pull_put(r)
    \/ \E r \in Runs : Alone(r) /\ pull_count(r)
    \/ \E r \in Runs : Alone(r) /\ pull_drain(r)
    \/ \E r \in Runs, w \in SearchWorkerIds : Alone(r) /\ worker_genius_search_get(r, w)
    \/ \E r \in Runs, w \in SearchWorkerIds : Alone(r) /\ worker_genius_search_put(r, w)
    \/ \E r \in Runs, w \in LyricsWorkerIds : Alone(r) /\ worker_genius_lyrics_get(r, w)
    \/ \E r \in Runs, w \in LyricsWorkerIds : Alone(r) /\ worker_genius_lyrics_put(r, w)

\* The operating system schedules every process that can take a step, so the
\* run does not stop while its coordinator or one of its workers can go on: a
\* started request returns or raises, a process blocked on a non-empty queue
\* gets its item.
SpecOnePull == InitSynced /\ [][NextOnePull]_vars /\ WF_vars(NextOnePull)

\* One invocation of pull, and a client of the store that deletes rows of
\* lyrics and rewrites their text, which fires the delete and update triggers
\* of MIGRATION 2.
NextMaintenance ==
    \/ NextOnePull
    \/ \E id \in 1..lyrics_seq : delete_lyrics(id)
    \/ \E id \in 1..lyrics_seq, text \in UpdateTexts : update_lyrics(id, text)

SpecMaintenance == InitSynced /\ [][NextMaintenance]_vars

-----------------------------------------------------------------------------
(* One call of search_song on a bounded set of queries and responses.      *)

T_SongRemix == <<"S", "o", "n", "g", " ", "(", "R", "e", "m", "i", "x", ")">>
T_Tracklist == <<"T", "r", "a", "c", "k", "l", "i", "s", "t">>
T_tracklist == <<"t", "r", "a", "c", "k", "l", "i", "s", "t">>
T_track_list == <<"t", "r", "a", "c", "k", " ", "l", "i", "s", "t">>
T_SoRsqNg == <<" ", "S", "o", "U2019", "n", "g">>
T_FwSong == <<"UFF33", "o", "n", "g">>
T_songZw == <<"U200B", "s", "o", "n", "g", " ">>

HitTitles == {T_Song, T_song, T_SongLive, T_SongRemix, T_Tracklist,
              T_tracklist, T_track_list, T_SoRsqNg, T_FwSong}

QueryTitles == {T_Song, T_songZw, T_Tracklist}

HitShapes == [title : HitTitles, lyrics_state : {"complete", "unreleased"},
              instrumental : {PyBool(TRUE), PyBool(FALSE)}]

SeqsUpTo(S, n) == UNION {[1..k -> S] : k \in 0..n}

\* A response: the i-th hit has the url of page i.
Response(shapes) ==
    [i \in 1..Len(shapes) |->
        Song(shapes[i].title, Url(i), shapes[i].lyrics_state, shapes[i].instrumental)]

InitSearch ==
    /\ NoReconcile
    /\ InitStore(NumTracks)
    /\ provider = [song \in Songs |-> "exact"]
    /\ InitRuns
    /\ q_title \in QueryTitles
    /\ q_hits \in {Response(shapes) : shapes \in SeqsUpTo(HitShapes, MaxHits)}
    /\ q_pc = "call"
    /\ q_result = None

\* genius_client.search_song(title=q_title, artist=...), answered with q_hits.
search_call ==
    /\ q_pc = "call"
    /\ q_result' = search_song(q_title, q_hits)
    /\ q_pc' = "returned"
    /\ UNCHANGED <<store_vars, provider, run_vars, q_title, q_hits, reconcile_vars>>

NextSearch == search_call

SpecSearch == InitSearch /\ [][NextSearch]_vars

-----------------------------------------------------------------------------
(* The worker functions on queues that a caller has filled with tracks,    *)
(* candidates' sentinels and shutdown sentinels (None).                    *)

MaxQueue == 2           \* items on a queue when the workers start

\* Pools of one caller are started and blocked on their queues; the track
\* queue holds tracks and sentinels, the candidate queue sentinels.
InitWorkers ==
    /\ NoReconcile
    /\ InitStore(NumTracks)
    /\ provider \in [Songs -> {"exact", "nohits"}]
    /\ NoQuery
    /\ pc = [r \in Runs |-> "idle"]
    /\ track_iter = [r \in Runs |-> <<>>]
    /\ n_put = [r \in Runs |-> 0]
    /\ n_tracks = [r \in Runs |-> 0]
    /\ n_seen = [r \in Runs |-> 0]
    /\ drain_res = [r \in Runs |-> None]
    /\ queue_lyrics_results = [r \in Runs |-> <<>>]
    /\ \E caller \in Runs :
          /\ search_workers = [r \in Runs |-> [w \in SearchWorkerIds |->
                IF r = caller THEN Worker("get", None) ELSE Worker("new", None)]]
          /\ lyrics_workers = [r \in Runs |-> [w \in LyricsWorkerIds |->
                IF r = caller THEN Worker("get", None) ELSE Worker("new", None)]]
          /\ \E tq \in SeqsUpTo({SpotifyTrackDetails(t.id, t.title) : t \in tracks}
                                  \cup {None}, MaxQueue),
                cq \in SeqsUpTo({None}, MaxQueue) :
                /\ queue_track_details = [r \in Runs |-> IF r = caller THEN tq ELSE <<>>]
                /\ queue_search_results = [r \in Runs |-> IF r = caller THEN cq ELSE <<>>]

NextWorkers ==
    \/ \E r \in Runs, w \in SearchWorkerIds : worker_genius_search_get(r, w)
    \/ \E r \in Runs, w \in SearchWorkerIds : worker_genius_search_put(r, w)
    \/ \E r \in Runs, w \in SearchWorkerIds : worker_genius_search_raise(r, w)
    \/ \E r \in Runs, w \in LyricsWorkerIds : worker_genius_lyrics_get(r, w)
    \/ \E r \in Runs, w \in LyricsWorkerIds : worker_genius_lyrics_put(r, w)
    \/ \E r \in Runs, w \in LyricsWorkerIds : worker_genius_lyrics_raise(r, w)

SpecWorkers == InitWorkers /\ [][NextWorkers]_vars

-----------------------------------------------------------------------------
(* ravelibrarian.py: one call of reconcile(crate, online).  A track object *)
(* is known by its place in its list (path, spotify_id); positions count   *)
(* from 1 where Python counts from 0.  The scores rapidfuzz computes for   *)
(* the titles and artists of the call are drawn in the initial state.      *)

MaxCrate == 2           \* tracks in the crate
MaxOnline == 2          \* tracks of the playlist

TITLE_MATCH_THRESHOLD == 70
ARTIST_MATCH_THRESHOLD == 70
N_POTENTIAL_MATCHES == 5

\* Scores of rapidfuzz.fuzz.WRatio and rapidfuzz.fuzz.partial_ratio: below the
\* threshold, on it, above it.
TitleScores == {69, 70, 100}
ArtistScores == {69, 70}

CrateTrack(path, artist) == [kind |-> "CrateTrack", path |-> path, artist |-> artist]
SpotifyTrack(spotify_id) == [kind |-> "SpotifyTrack", spotify_id |-> spotify_id]
Discrepancies(ps, only) == [kind |-> "Discrepancies", pairs |-> ps, online_only |-> only]

\* rapidfuzz.process.extract(query, choices, scorer, limit): the limit best
\* choices as (score, idx), best score first, equal scores in list order.
RECURSIVE extract(_, _, _)
extract(scores, choices, limit) ==
    IF choices = {} \/ limit = 0 THEN <<>>
    ELSE LET idx == CHOOSE j \in choices : \A k \in choices :
                        \/ scores[j] > scores[k]
                        \/ (scores[j] = scores[k] /\ j <= k)
         IN <<[score |-> scores[idx], idx |-> idx]>>
            \o extract(scores, choices \ {idx}, limit - 1)

\* Track.artist_match_score: the partial_ratio of the artists, or False, which
\* compares as 0, for a crate track without artist.
artist_match_score(i, idx) ==
    IF truthy(crate[i].artist) THEN partial_ratio[i][idx] ELSE 0

\* Lines 110-119: the first potential match that passes both thresholds, as
\* its position in online; 0 when the loop ends without break.
RECURSIVE first_match(_, _)
first_match(i, potential_matches) ==
    IF potential_matches = <<>> THEN 0
    ELSE LET m == Head(potential_matches)
         IN IF m.score < TITLE_MATCH_THRESHOLD
            THEN first_match(i, Tail(potential_matches))
            ELSE IF artist_match_score(i, m.idx) < ARTIST_MATCH_THRESHOLD
            THEN first_match(i, Tail(potential_matches))
            ELSE m.idx

\* A reconcile that leaves a matched track in online_only.
discard_nothing(only, idx) == only

\* Line 118: online_only.discard(idx)
discard(only, idx) == only \ {idx}

\* The elements of a set of positions, in ascending order (the order in which
\* CPython iterates a set of small integers).
RECURSIVE ascending(_)
ascending(S) ==
    IF S = {} THEN <<>>
    ELSE LET i == CHOOSE i \in S : \A j \in S : i <= j
         IN <<i>> \o ascending(S \ {i})

\* The arguments of a call: a crate of files with or without artist tag, a
\* playlist, and the scores of every crate track against every online track.
InitReconcile ==
    /\ InitStore(NumTracks)
    /\ provider = [song \in Songs |-> "exact"]
    /\ InitRuns
    /\ NoQuery
    /\ \E n \in 0..MaxCrate, m \in 0..MaxOnline :
          /\ crate \in {c \in [1..n -> {CrateTrack(path, artist) :
                               path \in 1..n, artist \in {None, PyStr(<<"A">>)}}] :
                           \A i \in 1..n : c[i].path = i}
          /\ online = [j \in 1..m |-> SpotifyTrack(j)]
          /\ WRatio \in [1..n -> [1..m -> TitleScores]]
          /\ partial_ratio \in [1..n -> [1..m -> ArtistScores]]
    /\ rc_pc = "call"
    /\ offline_item = 0
    /\ pairs = <<>>
    /\ online_only = {}
    /\ discrepancies = None

\* Lines 98-101: online_only = set(range(len(online))), pairs = [].
reconcile_call ==
    /\ rc_pc = "call"
    /\ online_only' = 1..Len(online)
    /\ pairs' = <<>>
    /\ offline_item' = 1
    /\ rc_pc' = "loop"
    /\ UNCHANGED <<store_vars, provider, run_vars, query_vars, crate, online,
                   WRatio, partial_ratio, discrepancies>>

\* Lines 103-119: one turn of `for offline_item in crate`.
reconcile_item ==
    /\ rc_pc = "loop"
    /\ offline_item <= Len(crate)
    /\ LET potential_matches == extract(WRatio[offline_item], 1..Len(online),
                                        N_POTENTIAL_MATCHES)
           idx == first_match(offline_item, potential_matches)
       IN IF idx = 0
          THEN UNCHANGED <<pairs, online_only>>
          ELSE /\ pairs' = Append(pairs, <<crate[offline_item], online[idx]>>)
               /\ online_only' = discard(online_only, idx)
    /\ offline_item' = offline_item + 1
    /\ UNCHANGED <<store_vars, provider, run_vars, query_vars, crate, online,
                   WRatio, partial_ratio, rc_pc, discrepancies>>

\* Line 121: return Discrepancies(pairs, [online[i] for i in online_only]).
reconcile_return ==
    /\ rc_pc = "loop"
    /\ offline_item > Len(crate)
    /\ discrepancies' = Discrepancies(pairs,
          [k \in 1..Cardinality(online_only) |-> online[ascending(online_only)[k]]])
    /\ rc_pc' = "returned"
    /\ UNCHANGED <<store_vars, provider, run_vars, query_vars, crate, online,
                   WRatio, partial_ratio, offline_item, pairs, online_only>>

NextReconcile ==
    \/ reconcile_call
    \/ reconcile_item
    \/ reconcile_return

SpecReconcile == InitReconcile /\ [][NextReconcile]_vars

-----------------------------------------------------------------------------
(* Properties of the pull pipeline and of the store (checked under Spec).  *)

Min(S) == CHOOSE i \in S : \A j \in S : i <= j

NoCrash(r) ==
    /\ \A w \in SearchWorkerIds : search_workers[r][w].pc # "crashed"
    /\ \A w \in LyricsWorkerIds : lyrics_workers[r][w].pc # "crashed"

Falsy(queue) == {i \in 1..Len(queue) : ~ truthy(queue[i])}

\* C1: in a run in which no search and no fetch fails, the coordinator is
\* never left waiting on the result stream once it has taken as many results
\* off it as tracks were submitted (it stops draining and goes on to the join).
C1_StopsDrainingAtCount ==
    \A r \in Runs : (pc[r] = "drain" /\ NoCrash(r)) => n_seen[r] < n_put[r]

\* C2: once all tracks have been enqueued, one sentinel per worker has been
\* put on the track queue and on the candidate queue: each of the N (M)
\* sentinels is still on the queue or has made a worker exit.
C2_SentinelPerWorker ==
    \A r \in Runs :
        pc[r] = "drain" =>
            /\ Cardinality(Falsy(queue_track_details[r]))
                 + Cardinality({w \in SearchWorkerIds : search_workers[r][w].pc = "exited"})
                 = NSearchWorkers
            /\ Cardinality(Falsy(queue_search_results[r]))
                 + Cardinality({w \in LyricsWorkerIds : lyrics_workers[r][w].pc = "exited"})
                 = NLyricsWorkers

\* C3: recording lyrics for a track that already has a LyricsRecord raises no
\* error and does not stop the coordinator.
C3_ConflictIsNoOp == \A r \in Runs : pc[r] # "IntegrityError"

\* C4: in every state of the store there is at most one LyricsRecord per
\* track id.
C4_OneLyricsPerTrack ==
    \A a \in lyrics : \A b \in lyrics : a.track_id = b.track_id => a = b

\* C4 witness: a run has tried to record lyrics for a track that already had
\* a LyricsRecord, and a record of that store exists.
C4_Witness ==
    /\ \E r \in Runs : pc[r] = "IntegrityError"
    /\ lyrics # {}

\* C5: in every state of the store, each LyricsRecord has exactly one index
\* entry, with its row identity and its text (what the index holds under the
\* row's identity is what indexing its text once writes, nothing more), and
\* each index entry belongs to a LyricsRecord.
C5_IndexMirrorsLyrics ==
    /\ \A row \in lyrics :
          /\ {e \in lyrics_idx : e.rowid = row.id} = IdxRow(row.id, row.lyrics)
          /\ IdxRow(row.id, row.lyrics) # {}
    /\ \A e \in lyrics_idx : \E row \in lyrics : row.id = e.rowid

\* C5 witness: two records have been inserted and are in the store with their
\* index entries.
C5_Witness ==
    /\ Cardinality(lyrics) = 2
    /\ Cardinality({e.rowid : e \in lyrics_idx}) = 2

\* C6 (checked under SpecMaintenance): a step that deletes a LyricsRecord
\* leaves every full-text query answering without a row of it, and a step
\* that changes a record's text leaves the index with the new text for that
\* row and without the old one: what it holds under the row's identity is
\* what indexing the new text writes, and a query finds the row by the words
\* of the new text only.
C6_DeleteUpdateReindex ==
    [][\A old \in lyrics :
          /\ (~ \E row \in lyrics' : row.id = old.id) =>
                \A term \in Words :
                    /\ search(term)'.raises = "None"
                    /\ \A hit \in search(term)'.rows : hit.rowid # old.id
          /\ \A new \in lyrics' :
                (new.id = old.id /\ new.lyrics # old.lyrics) =>
                    /\ {e \in lyrics_idx' : e.rowid = new.id} = IdxRow(new.id, new.lyrics)
                    /\ \A e \in IdxRow(old.id, old.lyrics) \ IdxRow(new.id, new.lyrics) :
                          e \notin lyrics_idx'
                    /\ \A term \in Words :
                          (\E hit \in search(term)'.rows : hit.rowid = new.id)
                             <=> (\E i \in 1..Len(new.lyrics) : new.lyrics[i] = term)]_vars

\* C6 witness: one record has been deleted (its id was given out and is no
\* longer in the table), another has had its text updated, and a query for a
\* word of the old text that the new text lacks returns nothing.
C6_Witness ==
    /\ \E id \in 1..lyrics_seq : ~ \E row \in lyrics : row.id = id
    /\ \E row \in lyrics : row.lyrics \in UpdateTexts
    /\ search("la") = [raises |-> "None", rows |-> {}]

\* C10: a failure while processing one item never ends a worker.
C10_WorkerSurvivesFailure ==
    \A r \in Runs :
        /\ \A w \in SearchWorkerIds : search_workers[r][w].pc # "crashed"
        /\ \A w \in LyricsWorkerIds : lyrics_workers[r][w].pc # "crashed"

-----------------------------------------------------------------------------
(* Properties of search_song (checked under SpecSearch).                   *)

\* The hits whose normalized title equals the normalized query title.
ExactHits ==
    {i \in 1..Len(q_hits) : str_normalize(q_hits[i].title) = str_normalize(q_title)}

\* The denylist of the specification: a case-insensitive match of the title.
Denylisted(title) == title_skip_search(lower(title))

\* The hits the fallback pass of the specification may return.
EligibleHits ==
    {i \in 1..Len(q_hits) :
        /\ q_hits[i].lyrics_state = "complete"
        /\ ~ truthy(q_hits[i].instrumental)
        /\ ~ Denylisted(q_hits[i].title)}

\* C7: search_song returns the first hit, in hit order, whose normalized title
\* equals the normalized query title, whatever its lyrics_state and
\* instrumental flag.
C7_ExactMatchFirst ==
    (q_pc = "returned" /\ ExactHits # {}) => q_result = q_hits[Min(ExactHits)]

\* C7 witness: the first exact match differs from the query in its raw
\* title, has no complete lyrics, and is returned although a later hit has
\* complete lyrics.
C7_Witness ==
    /\ q_pc = "returned"
    /\ ExactHits # {}
    /\ q_hits[Min(ExactHits)].title # q_title
    /\ q_hits[Min(ExactHits)].lyrics_state # "complete"
    /\ \E j \in 1..Len(q_hits) : j > Min(ExactHits) /\ j \in EligibleHits
    /\ q_result = q_hits[Min(ExactHits)]

\* C8: when no hit matches the query title exactly, search_song returns the
\* first hit that has complete lyrics, is not instrumental and is not
\* denylisted.
C8_FallbackFirstEligible ==
    (q_pc = "returned" /\ ExactHits = {} /\ EligibleHits # {})
        => q_result = q_hits[Min(EligibleHits)]

\* C9: the fallback pass never returns a hit whose title matches the denylist
\* case-insensitively.
C9_FallbackNeverDenylisted ==
    (q_pc = "returned" /\ ExactHits = {} /\ q_result.kind # "None")
        => ~ Denylisted(q_result.title)

\* C9 witness: with no exact match, a hit titled "Tracklist" with complete
\* lyrics that is not instrumental was offered, and was not returned.
C9_Witness ==
    /\ q_pc = "returned"
    /\ ExactHits = {}
    /\ \E i \in 1..Len(q_hits) :
          /\ q_hits[i].title = T_Tracklist
          /\ q_hits[i].lyrics_state = "complete"
          /\ ~ truthy(q_hits[i].instrumental)
          /\ q_result # q_hits[i]

-----------------------------------------------------------------------------
(* Properties of successive runs and of the backlog (checked under Spec).  *)

\* Run r has taken a result off the stream for every track it submitted;
\* every track of the catalog was in its backlog and no track has been added
\* since.
Finished(r) ==
    /\ pc[r] = "drain"
    /\ n_put[r] = Cardinality(tracks)
    /\ n_seen[r] = n_put[r]

\* The step is run r executing its backlog query.
Selects(r) == pc[r] = "select" /\ pc'[r] = "put"

\* The track ids of a sequence of rows.
Ids(rows) == {rows[i].id : i \in 1..Len(rows)}

\* The ids of the tracks of the catalog.
Tracked == {t.id : t \in tracks}

\* The tracks for which the provider gives a candidate and lyric text.
WithLyrics == {t \in Tracked : outcome(t) = "exact"}

\* C11 as stated: a run that starts after another run has finished, with no
\* track added in between, has an empty backlog.
C11_SecondRunEmpty ==
    [][\A r1 \in Runs : \A r2 \in Runs \ {r1} :
          (Finished(r1) /\ Selects(r2)) => track_iter'[r2] = <<>>]_vars

\* C11 as amended: a run that starts after another run has finished without
\* failure, with no track added in between, has in its backlog exactly the
\* tracks for which the first run got no lyric text; it is empty when the
\* first run recorded lyrics for every track.
C11_SecondRunBacklog ==
    [][\A r1 \in Runs : \A r2 \in Runs \ {r1} :
          (Finished(r1) /\ NoCrash(r1) /\ Selects(r2)) =>
              Ids(track_iter'[r2]) = Tracked \ WithLyrics]_vars

\* C11 witness: the second run has read its backlog after the first run
\* finished; the first run recorded one track, the other is in the backlog.
C11_Witness ==
    \E r1 \in Runs : \E r2 \in Runs \ {r1} :
        /\ Finished(r1) /\ NoCrash(r1)
        /\ pc[r2] = "put" /\ n_put[r2] = 0
        /\ Cardinality(WithLyrics) = 1
        /\ track_iter[r2] # <<>>
        /\ Ids(track_iter[r2]) = Tracked \ WithLyrics
        /\ {row.track_id : row \in lyrics} = WithLyrics

\* The step is run r taking res off its result stream.
Consumes(r, res) ==
    /\ pc[r] = "drain"
    /\ n_seen'[r] = n_seen[r] + 1
    /\ res = Head(queue_lyrics_results[r])

\* C12: a track whose outcome is "no lyrics" never gets a LyricsRecord; the
\* step that consumes its result, or in which a worker fails on an item,
\* persists nothing; and the track is in the backlog that every run reads.
C12_NoLyricsStaysInBacklog ==
    [][/\ \A row \in lyrics' : row.track_id \in WithLyrics
       /\ \A r \in Runs :
             /\ Selects(r) => (Tracked \ WithLyrics) \subseteq Ids(track_iter'[r])
             /\ (pc[r] = "drain" /\ n_seen'[r] # n_seen[r]
                   /\ ~ truthy(Head(queue_lyrics_results[r]).lyrics))
                  => UNCHANGED store_vars
             /\ (\E w \in SearchWorkerIds :
                    search_workers[r][w].pc # "crashed" /\ search_workers'[r][w].pc = "crashed")
                  => UNCHANGED store_vars
             /\ (\E w \in LyricsWorkerIds :
                    lyrics_workers[r][w].pc # "crashed" /\ lyrics_workers'[r][w].pc = "crashed")
                  => UNCHANGED store_vars]_vars

\* C12 witness: one run has consumed a result for every track, a track
\* without lyrics has no record, and a search worker of the other run is
\* searching for that track again.
C12_Witness ==
    \E r1 \in Runs : \E r2 \in Runs \ {r1} : \E t \in Tracked \ WithLyrics :
        /\ Finished(r1)
        /\ ~ \E row \in lyrics : row.track_id = t
        /\ \E w \in SearchWorkerIds :
              /\ search_workers[r2][w].pc = "busy"
              /\ search_workers[r2][w].item.tid = t

\* C13: the backlog read of a run yields exactly the tracks of the catalog
\* that have no LyricsRecord, each once, as rows of table tracks; the COUNT(*)
\* that follows gives their number; neither read changes the store.
C13_BacklogIsAntiJoin ==
    [][\A r \in Runs :
          /\ Selects(r) =>
                /\ Ids(track_iter'[r]) =
                      {t.id : t \in {u \in tracks :
                                       \A row \in lyrics : row.track_id # u.id}}
                /\ Cardinality(Ids(track_iter'[r])) = Len(track_iter'[r])
                /\ \A i \in 1..Len(track_iter'[r]) :
                      \E t \in tracks : track_iter'[r][i] = id_title(t)
                /\ UNCHANGED store_vars
          /\ (pc[r] = "put" /\ pc'[r] = "drain") =>
                /\ n_tracks'[r] =
                      Cardinality({u \in tracks : \A row \in lyrics : row.track_id # u.id})
                /\ UNCHANGED store_vars]_vars

\* C13 witness: a run has just read a backlog of one track from a store in
\* which the other track has a LyricsRecord.
C13_Witness ==
    \E r \in Runs :
        /\ pc[r] = "put" /\ n_put[r] = 0
        /\ Len(track_iter[r]) = 1
        /\ Cardinality(lyrics) = 1
        /\ \A row \in lyrics : row.track_id # track_iter[r][1].id

\* Run r is still reading its backlog: the query is not executed yet, or its
\* cursor has rows left.
Reading(r) == pc[r] = "select" \/ (pc[r] = "put" /\ track_iter[r] # <<>>)

\* C14 as stated: while the coordinator is still reading the backlog, no
\* search worker of the run has dequeued a track and nothing has been handed
\* downstream.
C14_MaterializedBeforeWorkers ==
    \A r \in Runs :
        Reading(r) =>
            /\ \A w \in SearchWorkerIds : search_workers[r][w].pc # "busy"
            /\ queue_search_results[r] = <<>>
            /\ n_seen[r] = 0

\* C14 as amended: the workers run while the backlog is being read, but the
\* backlog query of a run is executed once, and the run takes no result off
\* its result stream, and so writes no lyrics, before its cursor is exhausted.
C14_NoWriteBeforeBacklogRead ==
    [][\A r \in Runs :
          /\ (Len(queue_lyrics_results'[r]) < Len(queue_lyrics_results[r])
                \/ n_seen'[r] # n_seen[r])
               => (pc[r] = "drain" /\ track_iter[r] = <<>>)
          /\ pc'[r] = "select" => pc[r] \in {"idle", "select"}
          /\ track_iter'[r] # track_iter[r] =>
                (Selects(r) \/ track_iter'[r] = Tail(track_iter[r]))]_vars

\* C14 witness: a search worker of one run is busy with a track while the
\* cursor of that run still has a row, and another run, whose cursor is
\* exhausted, has taken a result off its result stream.
C14_Witness ==
    \E r1 \in Runs : \E r2 \in Runs \ {r1} :
        /\ pc[r1] = "put" /\ track_iter[r1] # <<>>
        /\ \E w \in SearchWorkerIds : search_workers[r1][w].pc = "busy"
        /\ pc[r2] = "drain" /\ track_iter[r2] = <<>> /\ n_seen[r2] > 0

\* Track t was fed to the pipeline of run r: it is on the track queue.
Fed(r, t) ==
    \E i \in 1..Len(queue_track_details[r]) : queue_track_details[r][i].tid = t

\* Run r has failed: one of its workers ended on an exception, or its
\* coordinator did.
Failed(r) ==
    \/ pc[r] \in {"IntegrityError", "OperationalError"}
    \/ \E w \in SearchWorkerIds : search_workers[r][w].pc = "crashed"
    \/ \E w \in LyricsWorkerIds : lyrics_workers[r][w].pc = "crashed"

\* The text of the page the provider serves for a track with lyrics, its
\* containers joined by newlines.
PageText == <<"la", "\n", "na", "la">>

\* The one LyricsRecord of track t with the candidate's URL and the extracted
\* text, and its full-text index entry.
Recorded(t) ==
    /\ Cardinality({row \in lyrics : row.track_id = t}) = 1
    /\ \E row \in lyrics :
          /\ row.track_id = t /\ row.genius_url = Url(t) /\ row.lyrics = PageText
          /\ {e \in lyrics_idx : e.rowid = row.id} = IdxRow(row.id, PageText)

\* C15: a track without LyricsRecord that is fed to the pipeline, for which
\* the resolver returns a candidate and the extractor non-empty text, is
\* eventually recorded, unless the run fails; and every step of the pipeline
\* that adds a row to table lyrics adds exactly one, for a track that had
\* none, with the candidate's URL and the extracted text, and indexes it.
C15_EndToEnd ==
    /\ \A r \in Runs, t \in TrackIds :
          (Fed(r, t) /\ outcome(t) = "exact" /\ ~ idx_lyrics_track_id(lyrics, t))
             ~> (Recorded(t) \/ Failed(r))
    /\ [][lyrics_seq' # lyrics_seq =>
            \E t \in Tracked :
               /\ outcome(t) = "exact"
               /\ ~ idx_lyrics_track_id(lyrics, t)
               /\ Cardinality(lyrics' \ lyrics) = 1
               /\ lyrics \subseteq lyrics'
               /\ Recorded(t)']_vars

\* C15 witness: a run without failure has consumed the result of a track and
\* the track is recorded.
C15_Witness ==
    \E r \in Runs, t \in Tracked :
        /\ ~ Failed(r) /\ n_seen[r] > 0 /\ outcome(t) = "exact"
        /\ Recorded(t)

\* C16: a search worker that returns from a search without candidate puts a
\* SearchResult with genius_result None on the candidate queue and goes on; a
\* lyrics worker that holds a result without candidate requests no page, so
\* its only step is to put one LyricsResult for that track, with no candidate
\* and no lyrics, on the result stream and go back to its loop.
C16_NoCandidateNoFetch ==
    [][\A r \in Runs :
          /\ \A w \in SearchWorkerIds :
                LET track_details == search_workers[r][w].item
                IN (/\ search_workers[r][w].pc = "busy"
                    /\ search_workers'[r][w].pc = "get"
                    /\ outcome(track_details.tid) \in {"nohits", "fallback"})
                   => queue_search_results'[r] =
                         Append(queue_search_results[r],
                                SearchResult(track_details, None))
          /\ \A w \in LyricsWorkerIds :
                LET search_res == lyrics_workers[r][w].item
                IN (/\ lyrics_workers[r][w].pc = "busy"
                    /\ search_res.genius_result = None
                    /\ lyrics_workers'[r][w] # lyrics_workers[r][w])
                   => /\ lyrics_workers'[r][w] = Worker("get", None)
                      /\ queue_lyrics_results'[r] =
                            Append(queue_lyrics_results[r],
                                   LyricsResult(search_res.track, None, None))]_vars

\* C16 witness: the result stream of a run holds the terminal result of a
\* track without candidate, and the lyrics worker that put it is back in its
\* loop.
C16_Witness ==
    \E r \in Runs, t \in Tracked :
        /\ outcome(t) = "nohits"
        /\ \E i \in 1..Len(queue_lyrics_results[r]) :
              queue_lyrics_results[r][i] =
                 LyricsResult(SpotifyTrackDetails(t, T_Song), None, None)
        /\ \A w \in LyricsWorkerIds : lyrics_workers[r][w].pc = "get"

\* The step is the commit of run r going through after it had to wait.
Commits(r) == pc[r] = "commit" /\ pc'[r] = "drain"

\* The step adds to table lyrics one new row, for the track and with the text
\* of res.
Adds(res) ==
    \E new \in lyrics' \ lyrics :
        /\ lyrics' = lyrics \cup {new}
        /\ new.track_id = res.track.tid
        /\ new.lyrics = res.lyrics.text
        /\ new.lyrics # <<>>
        /\ \A row \in lyrics : row.id # new.id

\* C17: a step in which the sink consumes a result with no lyrics or with
\* empty text leaves table lyrics and the full-text index unchanged; a step in
\* which it consumes a result with text adds one new row with that text, or
\* raises and leaves both unchanged, or leaves both unchanged and waits for
\* its commit, which then adds that row or raises; every step of a run that
\* changes table lyrics is one of the two; and no step of a run (a step that
\* changes the state of a coordinator or a worker) changes or removes a row
\* of lyrics.
C17_InsertOnlyForText ==
    [][/\ \A r \in Runs :
            LET res == Head(queue_lyrics_results[r])
            IN /\ Consumes(r, res) =>
                    IF res.lyrics = None \/ res.lyrics = PyStr(<<>>)
                    THEN /\ UNCHANGED <<lyrics, lyrics_idx, lyrics_idx_data, lyrics_seq>>
                         /\ pc'[r] = "drain"
                    ELSE \/ /\ pc'[r] = "IntegrityError"
                            /\ UNCHANGED <<lyrics, lyrics_idx, lyrics_idx_data, lyrics_seq>>
                         \/ /\ pc'[r] = "commit" /\ drain_res'[r] = res
                            /\ UNCHANGED <<lyrics, lyrics_idx, lyrics_idx_data, lyrics_seq>>
                         \/ /\ pc'[r] = "drain"
                            /\ Adds(res)
               /\ (pc[r] = "commit" /\ pc'[r] # "commit") =>
                    \/ /\ pc'[r] \in {"IntegrityError", "OperationalError"}
                       /\ UNCHANGED <<lyrics, lyrics_idx, lyrics_idx_data, lyrics_seq>>
                    \/ /\ Commits(r)
                       /\ truthy(drain_res[r].lyrics)
                       /\ Adds(drain_res[r])
       /\ (run_vars' # run_vars /\ lyrics' # lyrics) =>
             \E r \in Runs : Commits(r) \/ Consumes(r, Head(queue_lyrics_results[r]))
       /\ run_vars' # run_vars => lyrics \subseteq lyrics']_vars

\* C17 witness: a run has consumed the result of a track whose page has an
\* empty container and of a track whose page has text; the second has a row,
\* the first has none.
C17_Witness ==
    \E r \in Runs, t1 \in Tracked, t2 \in Tracked :
        /\ outcome(t1) = "emptytext" /\ outcome(t2) = "exact"
        /\ n_seen[r] = NumTracks
        /\ idx_lyrics_track_id(lyrics, t2)
        /\ ~ idx_lyrics_track_id(lyrics, t1)

\* C18: a step of a search or lyrics worker (its state changes while every
\* coordinator stays where it is) leaves the four tables of the store
\* unchanged; a step of a run that changes table lyrics or its index is a turn
\* of a coordinator's drain loop; and no step of a run changes table tracks.
C18_CoordinatorSoleWriter ==
    [][/\ ((search_workers' # search_workers \/ lyrics_workers' # lyrics_workers)
             /\ pc' = pc) => UNCHANGED store_vars
       /\ (run_vars' # run_vars /\ <<lyrics, lyrics_idx, lyrics_idx_data, lyrics_seq>>' # <<lyrics, lyrics_idx, lyrics_idx_data, lyrics_seq>>)
             => \E r \in Runs : Commits(r) \/ Consumes(r, Head(queue_lyrics_results[r]))
       /\ run_vars' # run_vars => tracks' = tracks]_vars

\* C18 witness: a coordinator has written a LyricsRecord while a lyrics worker
\* of its run is at work on another track, which a sync added to the catalog.
C18_Witness ==
    \E r \in Runs :
        /\ n_seen[r] > 0 /\ lyrics # {}
        /\ \E w \in LyricsWorkerIds : lyrics_workers[r][w].pc = "busy"
        /\ Cardinality(tracks) = NumTracks

\* The number of sentinels on a queue.
Sentinels(queue) == Cardinality(Falsy(queue))

\* C19: a worker that takes a sentinel off its input queue exits, with both
\* downstream queues unchanged, and an exited worker takes no further step;
\* so the number of sentinels on the candidate queue never grows and the
\* result stream never holds one.
C19_SentinelNotForwarded ==
    [][\A r \in Runs :
          /\ \A w \in SearchWorkerIds :
                /\ (/\ search_workers[r][w].pc = "get"
                    /\ search_workers'[r][w] # search_workers[r][w]
                    /\ ~ truthy(Head(queue_track_details[r])))
                   => /\ search_workers'[r][w] = Worker("exited", None)
                      /\ queue_track_details'[r] = Tail(queue_track_details[r])
                      /\ UNCHANGED <<queue_search_results, queue_lyrics_results>>
                /\ search_workers[r][w].pc = "exited"
                   => search_workers'[r][w] = search_workers[r][w]
          /\ \A w \in LyricsWorkerIds :
                /\ (/\ lyrics_workers[r][w].pc = "get"
                    /\ lyrics_workers'[r][w] # lyrics_workers[r][w]
                    /\ ~ truthy(Head(queue_search_results[r])))
                   => /\ lyrics_workers'[r][w] = Worker("exited", None)
                      /\ queue_search_results'[r] = Tail(queue_search_results[r])
                      /\ UNCHANGED queue_lyrics_results
                /\ lyrics_workers[r][w].pc = "exited"
                   => lyrics_workers'[r][w] = lyrics_workers[r][w]
          /\ Sentinels(queue_search_results'[r]) <= Sentinels(queue_search_results[r])
          /\ Sentinels(queue_lyrics_results'[r]) = 0]_vars

\* C19 witness: a search worker and a lyrics worker have exited on a sentinel,
\* the other workers have passed a track on to the result stream, and no queue
\* holds a sentinel.
C19_Witness ==
    \E r \in Runs :
        /\ \E w \in SearchWorkerIds : search_workers[r][w].pc = "exited"
        /\ \E w \in LyricsWorkerIds : lyrics_workers[r][w].pc = "exited"
        /\ queue_lyrics_results[r] # <<>>
        /\ Sentinels(queue_track_details[r]) = 0
        /\ Sentinels(queue_search_results[r]) = 0
        /\ Sentinels(queue_lyrics_results[r]) = 0

\* The places of the pipeline of run r that hold a track, as <<stage, place,
\* track id>>: on the track queue (1), with a search worker (2), on the
\* candidate queue (3), with a lyrics worker (4), on the result stream (5).
Places(r) ==
    {<<1, i, queue_track_details[r][i].tid>> : i \in 1..Len(queue_track_details[r])}
    \cup {<<2, w, search_workers[r][w].item.tid>> :
             w \in {w \in SearchWorkerIds : search_workers[r][w].pc = "busy"}}
    \cup {<<3, i, queue_search_results[r][i].track.tid>> :
             i \in 1..Len(queue_search_results[r])}
    \cup {<<4, w, lyrics_workers[r][w].item.track.tid>> :
             w \in {w \in LyricsWorkerIds : lyrics_workers[r][w].pc = "busy"}}
    \cup {<<5, i, queue_lyrics_results[r][i].track.tid>> :
             i \in 1..Len(queue_lyrics_results[r])}

\* The places among ps that hold track t.
Of(ps, t) == {p \in ps : p[3] = t}

\* The stage of a track that is at one place.
StageOf(ps, t) == (CHOOSE p \in ps : p[3] = t)[1]

\* C20: in a run in which no search and no fetch fails, after every step each
\* track is at no more than one place of the pipeline; the tracks in the
\* pipeline and the results consumed add up to the tracks submitted; the
\* results produced (on the stream or consumed) are no more than the tracks
\* submitted; and the step leaves a track at its stage, moves it on by one
\* stage, takes it off the result stream as a consumed result, or submits it
\* to the track queue.
C20_EachTrackOnce ==
    [][\A r \in Runs :
          (NoCrash(r) /\ NoCrash(r)') =>
             LET before == Places(r)
                 after == Places(r)'
             IN /\ \A t \in TrackIds : Cardinality(Of(after, t)) <= 1
                /\ Cardinality(after) + n_seen'[r] = n_put'[r]
                /\ Cardinality({p \in after : p[1] = 5}) + n_seen'[r] <= n_put'[r]
                /\ \A t \in TrackIds :
                      IF Of(before, t) # {}
                      THEN \/ /\ Of(after, t) # {}
                              /\ StageOf(after, t) \in
                                    {StageOf(before, t), StageOf(before, t) + 1}
                           \/ /\ Of(after, t) = {}
                              /\ StageOf(before, t) = 5
                              /\ n_seen'[r] = n_seen[r] + 1
                      ELSE Of(after, t) # {} =>
                              (StageOf(after, t) = 1 /\ n_put'[r] = n_put[r] + 1)]_vars

\* C20 witness: in a run without failure both search workers are at work on
\* different tracks at once, and in another both tracks have gone through
\* both stages and their results were consumed.
C20_Witness ==
    \E r1 \in Runs : \E r2 \in Runs \ {r1} :
        /\ NoCrash(r1) /\ NoCrash(r2)
        /\ \A w \in SearchWorkerIds : search_workers[r1][w].pc = "busy"
        /\ n_put[r2] = NumTracks /\ n_seen[r2] = NumTracks

\* Run r has consumed the result of every track it submitted.
AllConsumed(r) ==
    pc[r] = "drain" /\ track_iter[r] = <<>> /\ n_put[r] > 0 /\ n_seen[r] = n_put[r]

\* The rows of table lyrics without their ids.
Contents(rows) == {<<row.track_id, row.genius_url, row.lyrics>> : row \in rows}

\* The rows a run writes when the results arrive in submission order: the
\* tracks with lyrics, with ids in the order of the track ids.
InSubmissionOrder ==
    {LyricsRow(Cardinality({u \in WithLyrics : u <= t}), t, Url(t), PageText)
        : t \in WithLyrics}

\* C21 as stated: once a run has consumed all its results, table lyrics is
\* the same set of records (id, track_id, url, text) whatever the order in
\* which the results arrived, so it is the set written in submission order.
C21_SameRecords ==
    \A r \in Runs : AllConsumed(r) => lyrics = InSubmissionOrder

\* C21 as amended: once a run has consumed all its results, table lyrics
\* holds, whatever the interleaving, one row for each track whose search has a
\* matching hit and whose page has text, with that hit's url and that text,
\* and the index holds the entries of these rows; the ids of the rows are
\* 1..n in the order in which the results arrived.
C21_SameContents ==
    \A r \in Runs :
        AllConsumed(r) =>
            /\ Contents(lyrics) = {<<t, Url(t), PageText>> : t \in WithLyrics}
            /\ Cardinality(lyrics) = Cardinality(WithLyrics)
            /\ {row.id : row \in lyrics} = 1..Cardinality(WithLyrics)
            /\ lyrics_idx = UNION {IdxRow(row.id, row.lyrics) : row \in lyrics}

\* C21 witness: a run has consumed all its results, every track has lyrics,
\* and the result of the last track arrived first.
C21_Witness ==
    \E r \in Runs :
        /\ AllConsumed(r)
        /\ WithLyrics = Tracked
        /\ \E row \in lyrics : row.track_id = NumTracks /\ row.id = 1

-----------------------------------------------------------------------------
(* Properties of reconcile (checked under SpecReconcile).                  *)

\* The pairs of a result whose matched item is the online track x.
PairsOf(x) ==
    {k \in 1..Len(discrepancies.pairs) : discrepancies.pairs[k][2] = x}

\* The places of a result's online_only list that hold the online track x.
OnlyOf(x) ==
    {k \in 1..Len(discrepancies.online_only) : discrepancies.online_only[k] = x}

\* C22: in the result of reconcile every online track is in online_only, once,
\* or is the matched item of at least one pair, and not both; every pair is a
\* crate track with an online track; and every crate track is the first item
\* of at most one pair.
C22_ReconcilePartitions ==
    rc_pc = "returned" =>
        /\ \A j \in 1..Len(online) :
              /\ (OnlyOf(online[j]) # {}) # (PairsOf(online[j]) # {})
              /\ Cardinality(OnlyOf(online[j])) <= 1
        /\ \A k \in 1..Len(discrepancies.online_only) :
              \E j \in 1..Len(online) : discrepancies.online_only[k] = online[j]
        /\ \A k \in 1..Len(discrepancies.pairs) :
              /\ \E i \in 1..Len(crate) : discrepancies.pairs[k][1] = crate[i]
              /\ \E j \in 1..Len(online) : discrepancies.pairs[k][2] = online[j]
        /\ \A i \in 1..Len(crate) :
              Cardinality({k \in 1..Len(discrepancies.pairs) :
                              discrepancies.pairs[k][1] = crate[i]}) <= 1

\* C22 witness: a result in which one online track is the matched item of two
\* pairs, another is in online_only, and no crate track is left unpaired.
C22_Witness ==
    /\ rc_pc = "returned"
    /\ \E j \in 1..Len(online) : Cardinality(PairsOf(online[j])) = 2
    /\ discrepancies.online_only # <<>>
    /\ Len(discrepancies.pairs) = Len(crate)

=============================================================================
